---- MODULE Spec2Model ----
(***************************************************************************)
(* Model of createMockServer (mock REST API over a JSON file): the store   *)
(* `data`, the backing file, the route table generated at startup, the     *)
(* six handlers per resource, handleRequest's body parsing and delay       *)
(* timers, and the watchFile reload callback.                              *)
(***************************************************************************)
EXTENDS Integers, Sequences, FiniteSets, TLC

\* ---------------------------------------------------------------- bounds
MaxReqs == 2        \* requests that arrive in one behaviour
MaxEdits == 1       \* edits of the file made from outside the server

\* ------------------------------------------------------------ JSON values
\* A value of a record field.  One shape for every kind of value:
\* t is the kind, n the number (kind "num"), s the text (kind "str").
Undef == [t |-> "undef", n |-> 0, s |-> ""]      \* the field is absent
Null == [t |-> "null", n |-> 0, s |-> ""]
NaN == [t |-> "nan", n |-> 0, s |-> ""]          \* in memory only
Num(k) == [t |-> "num", n |-> k, s |-> ""]
Str(x) == [t |-> "str", n |-> 0, s |-> x]

Fields == {"id", "name"}
Rec(i, nm) == [f \in Fields |-> IF f = "id" THEN i ELSE nm]
NoRec == Rec(Undef, Undef)                       \* the object {}

\* String(v)
JsString(v) ==
  CASE v.t = "num" -> ToString(v.n)
    [] v.t = "str" -> v.s
    [] v.t = "nan" -> "NaN"
    [] v.t = "null" -> "null"
    [] OTHER -> "undefined"

\* v || 0
OrZero(v) ==
  IF v.t \in {"undef", "null", "nan"} \/ v = Num(0) \/ v = Str("") THEN Num(0) ELSE v

\* the decimal strings the model's numbers can take
Digits == 0..9
IsNumeric(x) == \E k \in Digits : ToString(k) = x
\* ToNumber(v), as Math.max applies it to each argument
ToNumber(v) ==
  CASE v.t = "num" -> v
    [] v.t = "str" /\ IsNumeric(v.s) -> Num(CHOOSE k \in Digits : ToString(k) = v.s)
    [] v.t = "null" -> Num(0)
    [] OTHER -> NaN

\* Math.max(...vs) of a non-empty sequence of values
MathMax(vs) ==
  LET ns == [i \in 1..Len(vs) |-> ToNumber(vs[i])]
  IN IF \E i \in 1..Len(ns) : ns[i] = NaN THEN NaN
     ELSE Num(CHOOSE m \in {ns[i].n : i \in 1..Len(ns)} :
                \A i \in 1..Len(ns) : ns[i].n <= m)

\* v + 1
PlusOne(v) == IF v.t = "num" THEN Num(v.n + 1) ELSE NaN

\* { ...base, ...body }: the fields of body overwrite those of base
Spread(base, body) == [f \in Fields |-> IF body[f] # Undef THEN body[f] ELSE base[f]]

\* ------------------------------------------------------- store and file
Names == {"users", "posts"}

\* The in-memory `data`: kind "store" holds a mapping of resource name to a
\* sequence of records, kind "null" is the JSON value null (a file that
\* parses but is no mapping).
Doc(st) == [kind |-> "store", store |-> st]
NoStore == [r \in {} |-> <<>>]
NullDoc == [kind |-> "null", store |-> NoStore]

\* The file: "missing", "garbage" (no JSON), or the JSON text of a Doc.
MissingFile == [kind |-> "missing", store |-> NoStore]
GarbageFile == [kind |-> "garbage", store |-> NoStore]

\* JSON.stringify of one value: NaN is written as null
StringifyValue(v) == IF v = NaN THEN Null ELSE v
StringifyRec(rec) == [f \in Fields |-> StringifyValue(rec[f])]
\* JSON.stringify(data, null, 2), as the content of the file
Stringify(d) ==
  [kind |-> d.kind,
   store |-> [r \in DOMAIN d.store |->
                [i \in 1..Len(d.store[r]) |-> StringifyRec(d.store[r][i])]]]

\* data[resource] || []
Items(d, r) == IF r \in DOMAIN d.store THEN d.store[r] ELSE <<>>
\* data[resource] = items
SetItems(d, r, items) ==
  Doc([q \in DOMAIN d.store \cup {r} |-> IF q = r THEN items ELSE d.store[q]])

\* items.findIndex(i => String(i.id) === params.id); 0 stands for -1
FindIndex(items, id) ==
  IF \E i \in 1..Len(items) : JsString(items[i]["id"]) = id
  THEN CHOOSE i \in 1..Len(items) :
         /\ JsString(items[i]["id"]) = id
         /\ \A j \in 1..(i - 1) : JsString(items[j]["id"]) # id
  ELSE 0

\* items.pop() in place of the splice: the last record goes
SplicePop(items, idx) == [i \in 1..(Len(items) - 1) |-> items[i]]

\* items.splice(idx, 1)
Splice(items, idx) ==
  [i \in 1..(Len(items) - 1) |-> IF i < idx THEN items[i] ELSE items[i + 1]]

\* ------------------------------------------------------------------ state
VARIABLES
  data,       \* the in-memory store (let data)
  file,       \* the content of dataFile on disk
  routes,     \* resource names the route table was generated for
  readonly,   \* options.readonly
  watch,      \* options.watch
  delay,      \* options.delay, in milliseconds
  pending,    \* requests in flight: number -> [req, phase, parsed]
  nreq,       \* number of requests that have arrived
  running,    \* FALSE once an uncaught exception has ended the process
  dirty,      \* watchFile has seen a change and not yet called back
  edits,      \* number of outside edits of the file so far
  startFile,  \* the content of the file when the server started
  created,    \* the creates answered 201 so far, in order
  answers,    \* per request: handler calls made and responses sent
  last        \* the most recent response, crash, reload or outside edit

vars == <<data, file, routes, readonly, watch, delay, pending, nreq, running,
          dirty, edits, startFile, created, answers, last>>

\* ------------------------------------------------- loadData and saveData
\* loadData throws when the file is missing or is no JSON text
LoadThrows(f) == f.kind \in {"missing", "garbage"}
\* data = JSON.parse(content): whatever JSON value the text holds
loadData(f) == [kind |-> f.kind, store |-> f.store]

\* saveData writes unless read-only; the result is the file afterwards
saveData(d, f) == IF ~readonly THEN Stringify(d) ELSE f

\* ---------------------------------------------------------------- handlers
\* What one handler invocation does: the store and file afterwards, the
\* response (status 0: the handler threw and nothing was sent), whether
\* the file was written.
Reply(d, f, status, out, total, newId, wrote) ==
  [data |-> d, file |-> f, status |-> status, out |-> out, total |-> total,
   newId |-> newId, wrote |-> wrote]
Throw(d, f) == Reply(d, f, 0, <<>>, 0, Undef, FALSE)

\* saveData() forgotten: the response is sent, the file is not written
SaveAndReplyNoWrite(d2, f, wok, status, out, newId) ==
  Reply(d2, f, status, out, 0, newId, FALSE)

\* a mutation's tail: data[resource] = items; saveData(); sendJson(...)
\* wok is whether writeFileSync succeeds
SaveAndReply(d2, f, wok, status, out, newId) ==
  IF readonly \/ wok
  THEN Reply(d2, saveData(d2, f), status, out, 0, newId, ~readonly)
  ELSE Throw(d2, f)

\* sendJson writes JSON.stringify of the body
SendRec(rec) == <<StringifyRec(rec)>>

\* ------------------------------------------------------------ list query
\* url.query: the filter keys with their values, and the four control
\* keys, each absent (Undef) or a string
Query(fs, pg, lim, srt, ord) ==
  [filters |-> fs, page |-> pg, limit |-> lim, sort |-> srt, order |-> ord]
NoFilters == [k \in {} |-> ""]
NoQuery == Query(NoFilters, Undef, Undef, Undef, Undef)

\* item[key]
Field(item, key) == IF key \in Fields THEN item[key] ELSE Undef

\* items.filter(item => String(item[key]) === String(value))
FilterBy(items, key, value) ==
  SelectSeq(items, LAMBDA item : JsString(Field(item, key)) = value)

\* the loop over Object.entries(url.query): one filter after the other
RECURSIVE FilterAll(_, _, _)
FilterAll(items, fs, keys) ==
  IF keys = {} THEN items
  ELSE LET key == CHOOSE k \in keys : TRUE
       IN FilterAll(FilterBy(items, key, fs[key]), fs, keys \ {key})
Filtered(items, q) == FilterAll(items, q.filters, DOMAIN q.filters)

\* parseInt(v) of a query value: the integers the model's queries spell
QueryInts == -2..9
ParseInt(v) ==
  IF v.t = "str" /\ \E k \in QueryInts : ToString(k) = v.s
  THEN Num(CHOOSE k \in QueryInts : ToString(k) = v.s)
  ELSE NaN

\* parseInt(v) || dflt, as a number
IntOr(v, dflt) ==
  LET k == ParseInt(v) IN IF k = NaN \/ k = Num(0) THEN dflt ELSE k.n

\* items.slice(start, end): negative indices count from the end
SliceIndex(len, k) ==
  IF k < 0 THEN (IF len + k < 0 THEN 0 ELSE len + k) ELSE (IF k > len THEN len ELSE k)
JsSlice(items, start, end) ==
  LET from == SliceIndex(Len(items), start)
      to == SliceIndex(Len(items), end)
  IN [i \in 1..(to - from) |-> items[from + i]]

\* the page window: page, limit, start, items.slice(start, start + limit)
Paged(items, q) ==
  LET page == IntOr(q.page, 1)
      limit == IntOr(q.limit, Len(items))
      start == (page - 1) * limit
  IN JsSlice(items, start, start + limit)

\* string comparison by code unit, for the one-character strings of the model
Collation == <<"0", "1", "2", "3", "4", "5", "6", "7", "8", "9", "a", "b", "c", "x", "z">>
Rank(x) == IF \E i \in 1..Len(Collation) : Collation[i] = x
           THEN CHOOSE i \in 1..Len(Collation) : Collation[i] = x ELSE 0
\* x < y: two strings by code unit, anything else as numbers
JsLess(x, y) ==
  IF x.t = "str" /\ y.t = "str" THEN Rank(x.s) < Rank(y.s)
  ELSE LET nx == ToNumber(x)
           ny == ToNumber(y)
       IN nx # NaN /\ ny # NaN /\ nx.n < ny.n

\* url.query._sort is truthy
Sorting(q) == q.sort # Undef /\ q.sort # Str("")
\* the comparator given to paged.sort
Compare(a, b, q) ==
  LET order == IF q.order = Str("desc") THEN -1 ELSE 1
      x == Field(a, q.sort.s)
      y == Field(b, q.sort.s)
  IN IF JsLess(x, y) THEN -1 * order ELSE IF JsLess(y, x) THEN 1 * order ELSE 0

\* the comparator orders these records consistently (a strict weak order)
Consistent(items, q) ==
  \A i, j, k \in 1..Len(items) :
    /\ (Compare(items[i], items[j], q) < 0 /\ Compare(items[j], items[k], q) < 0)
         => Compare(items[i], items[k], q) < 0
    /\ (Compare(items[i], items[j], q) = 0 /\ Compare(items[j], items[k], q) = 0)
         => Compare(items[i], items[k], q) = 0

\* Array.prototype.sort with a consistent comparator: a stable sort, here
\* by insertion of each record behind those that do not come after it
Insert(sorted, item, q) ==
  LET k == Cardinality({i \in 1..Len(sorted) : Compare(sorted[i], item, q) <= 0})
  IN [i \in 1..(Len(sorted) + 1) |->
        IF i <= k THEN sorted[i] ELSE IF i = k + 1 THEN item ELSE sorted[i - 1]]
RECURSIVE StableSort(_, _, _)
StableSort(items, n, q) ==
  IF n = 0 THEN <<>> ELSE Insert(StableSort(items, n - 1, q), items[n], q)

\* every order of the records
Orders(items) ==
  {[i \in 1..Len(items) |-> items[p[i]]] :
     p \in {f \in [1..Len(items) -> 1..Len(items)] :
             \A i, j \in 1..Len(items) : i # j => f[i] # f[j]}}

\* what paged.sort can leave in paged: with an inconsistent comparator the
\* order is implementation-defined
SortOutcomes(paged, q) ==
  IF ~Sorting(q) THEN {paged}
  ELSE IF Consistent(paged, q) THEN {StableSort(paged, Len(paged), q)}
  ELSE Orders(paged)

\* the outcomes of the sort of a list request (one, unsorted, otherwise)
ListOutcomes(d, req) ==
  IF req.method = "GET" /\ req.id = ""
  THEN SortOutcomes(Paged(Filtered(Items(d, req.res), req.query), req.query), req.query)
  ELSE {<<>>}

\* the header counted after paging
TotalCountOfPage(filtered, paged) == Len(paged)

\* X-Total-Count: items.length, items being the filtered records
TotalCount(filtered, paged) == Len(filtered)

\* paged.sort written as items.sort, with data[resource] left sorted
ListHandlerSortsStore(d, f, r, q, sorted) ==
  IF d.kind = "null" THEN Throw(d, f)
  ELSE LET items == Filtered(Items(d, r), q)
       IN Reply(SetItems(d, r, sorted), f, 200,
                [i \in 1..Len(sorted) |-> StringifyRec(sorted[i])],
                TotalCount(items, Paged(items, q)), Undef, FALSE)

\* GET /resource; sorted is paged after paged.sort
ListHandler(d, f, r, q, sorted) ==
  IF d.kind = "null" THEN Throw(d, f)
  ELSE LET items == Filtered(Items(d, r), q)
       IN Reply(d, f, 200, [i \in 1..Len(sorted) |-> StringifyRec(sorted[i])],
                TotalCount(items, Paged(items, q)), Undef, FALSE)

\* GET /resource/:id
GetHandler(d, f, r, id) ==
  IF d.kind = "null" THEN Throw(d, f)
  ELSE LET items == Items(d, r)
           idx == FindIndex(items, id)
       IN IF idx = 0 THEN Reply(d, f, 404, <<>>, 0, Undef, FALSE)
          ELSE Reply(d, f, 200, SendRec(items[idx]), 0, Undef, FALSE)

\* items.length > 0 ? Math.max(...items.map(i => i.id || 0)) + 1 : 1
NewId(items) ==
  IF Len(items) > 0
  THEN PlusOne(MathMax([i \in 1..Len(items) |-> OrZero(items[i]["id"])]))
  ELSE Num(1)

\* { id: newId, ...body }
NewItem(newId, body) == Spread(Rec(newId, Undef), body)

\* POST /resource
PostHandler(d, f, r, body, wok) ==
  IF readonly THEN Reply(d, f, 403, <<>>, 0, Undef, FALSE)
  ELSE IF d.kind = "null" THEN Throw(d, f)
  ELSE LET items == Items(d, r)
           newId == NewId(items)
           newItem == NewItem(newId, body)
       IN SaveAndReply(SetItems(d, r, Append(items, newItem)), f, wok,
                       201, SendRec(newItem), newId)

\* { id: items[idx].id, ...body }
Replaced(orig, body) == Spread(Rec(orig["id"], Undef), body)

\* the lookup done before the read-only check
PutHandlerLookupFirst(d, f, r, id, body, wok) ==
  IF d.kind = "null" THEN Throw(d, f)
  ELSE LET items == Items(d, r)
           idx == FindIndex(items, id)
       IN IF idx = 0 THEN Reply(d, f, 404, <<>>, 0, Undef, FALSE)
          ELSE IF readonly THEN Reply(d, f, 403, <<>>, 0, Undef, FALSE)
          ELSE LET updated == Replaced(items[idx], body)
               IN SaveAndReply(SetItems(d, r, [items EXCEPT ![idx] = updated]),
                               f, wok, 200, SendRec(updated), Undef)

\* PUT /resource/:id
PutHandler(d, f, r, id, body, wok) ==
  IF readonly THEN Reply(d, f, 403, <<>>, 0, Undef, FALSE)
  ELSE IF d.kind = "null" THEN Throw(d, f)
  ELSE LET items == Items(d, r)
           idx == FindIndex(items, id)
       IN IF idx = 0 THEN Reply(d, f, 404, <<>>, 0, Undef, FALSE)
          ELSE LET updated == Replaced(items[idx], body)
               IN SaveAndReply(SetItems(d, r, [items EXCEPT ![idx] = updated]),
                               f, wok, 200, SendRec(updated), Undef)

\* the body with the id put back, as replace builds it: other fields are lost
UpdatedAsReplace(orig, body) == Spread(Rec(orig["id"], Undef), body)

\* { ...items[idx], ...body }
Updated(orig, body) == Spread(orig, body)

\* PATCH /resource/:id
PatchHandler(d, f, r, id, body, wok) ==
  IF readonly THEN Reply(d, f, 403, <<>>, 0, Undef, FALSE)
  ELSE IF d.kind = "null" THEN Throw(d, f)
  ELSE LET items == Items(d, r)
           idx == FindIndex(items, id)
       IN IF idx = 0 THEN Reply(d, f, 404, <<>>, 0, Undef, FALSE)
          ELSE LET updated == Updated(items[idx], body)
               IN SaveAndReply(SetItems(d, r, [items EXCEPT ![idx] = updated]),
                               f, wok, 200, SendRec(updated), Undef)

\* the read-only check left out
DeleteHandlerNoGuard(d, f, r, id, wok) ==
  IF d.kind = "null" THEN Throw(d, f)
  ELSE LET items == Items(d, r)
           idx == FindIndex(items, id)
       IN IF idx = 0 THEN Reply(d, f, 404, <<>>, 0, Undef, FALSE)
          ELSE SaveAndReply(SetItems(d, r, Splice(items, idx)), f, wok,
                            200, <<>>, Undef)

\* DELETE /resource/:id
DeleteHandler(d, f, r, id, wok) ==
  IF readonly THEN Reply(d, f, 403, <<>>, 0, Undef, FALSE)
  ELSE IF d.kind = "null" THEN Throw(d, f)
  ELSE LET items == Items(d, r)
           idx == FindIndex(items, id)
       IN IF idx = 0 THEN Reply(d, f, 404, <<>>, 0, Undef, FALSE)
          ELSE SaveAndReply(SetItems(d, r, Splice(items, idx)), f, wok,
                            200, <<>>, Undef)

\* -------------------------------------------------------------- requests
Methods == {"GET", "POST", "PUT", "PATCH", "DELETE", "OPTIONS"}
\* request paths, as <<first segment, second segment>>; "" is no segment
Paths == {<<"users", "">>, <<"users", "1">>, <<"posts", "">>}
BodyMethods == {"POST", "PUT", "PATCH"}

\* a request body as sent: nothing, text that is no JSON, or a JSON object
EmptyBody == [kind |-> "empty", rec |-> NoRec]
BadBody == [kind |-> "bad", rec |-> NoRec]
JsonBody(rec) == [kind |-> "json", rec |-> rec]
Bodies ==
  {EmptyBody, BadBody, JsonBody(Rec(Num(2), Undef)), JsonBody(Rec(Num(1), Str("c")))}
\* the bodies a request of method m is sent with
BodiesOf(m) == IF m \in BodyMethods THEN Bodies ELSE {EmptyBody}

Req(m, r, id, q, b) == [method |-> m, res |-> r, id |-> id, query |-> q, body |-> b]

\* the route table: the first route whose method and pattern match
\* ("" when none does)
\* routes looked up in the store of the moment rather than in the table
RouteOfLive(m, r, id) ==
  IF data.kind # "store" \/ r \notin DOMAIN data.store THEN ""
  ELSE CASE m = "GET" /\ id = "" -> "list"
         [] m = "GET" /\ id # "" -> "get"
         [] m = "POST" /\ id = "" -> "create"
         [] m = "PUT" /\ id # "" -> "replace"
         [] m = "PATCH" /\ id # "" -> "update"
         [] m = "DELETE" /\ id # "" -> "delete"
         [] OTHER -> ""

RouteOf(m, r, id) ==
  IF r \notin routes THEN ""
  ELSE CASE m = "GET" /\ id = "" -> "list"
         [] m = "GET" /\ id # "" -> "get"
         [] m = "POST" /\ id = "" -> "create"
         [] m = "PUT" /\ id # "" -> "replace"
         [] m = "PATCH" /\ id # "" -> "update"
         [] m = "DELETE" /\ id # "" -> "delete"
         [] OTHER -> ""

\* the catch around JSON.parse swallowing the error: the handler runs with {}
BodyThrowsNever(b) == FALSE

\* body ? JSON.parse(body) : {}
BodyThrows(b) == b.kind = "bad"
ParseBody(b) == IF b.kind = "json" THEN b.rec ELSE NoRec

\* route.handler(req, res, params, parsed)
Handler(d, f, req, parsed, wok, sorted) ==
  LET rt == RouteOf(req.method, req.res, req.id)
  IN CASE rt = "list" -> ListHandler(d, f, req.res, req.query, sorted)
       [] rt = "get" -> GetHandler(d, f, req.res, req.id)
       [] rt = "create" -> PostHandler(d, f, req.res, parsed, wok)
       [] rt = "replace" -> PutHandler(d, f, req.res, req.id, parsed, wok)
       [] rt = "update" -> PatchHandler(d, f, req.res, req.id, parsed, wok)
       [] OTHER -> DeleteHandler(d, f, req.res, req.id, wok)

\* what `last` records of a step
Last(kind, n, req, parsed, status, out, total, newId) ==
  [kind |-> kind, n |-> n, req |-> req, parsed |-> parsed, status |-> status,
   out |-> out, total |-> total, newId |-> newId,
   before |-> data]
NoReq == Req("", "", "", NoQuery, EmptyBody)

\* a request that reaches its handler: a route matches and the body parses
Routed(req) == RouteOf(req.method, req.res, req.id) # "" /\ ~BodyThrows(req.body)

\* `answers` with calls and sent added to the counts of request n
Counted(n, req, calls, sent) ==
  [k \in DOMAIN answers \cup {n} |->
     IF k = n
     THEN [routed |-> Routed(req),
           calls |-> calls + (IF n \in DOMAIN answers THEN answers[n].calls ELSE 0),
           sent |-> sent + (IF n \in DOMAIN answers THEN answers[n].sent ELSE 0)]
     ELSE answers[k]]

\* the handler runs: the store, the file and the response
Invoke(n, req, parsed, wok) ==
  \E sorted \in ListOutcomes(data, req) :
  LET h == Handler(data, file, req, parsed, wok, sorted)
  IN /\ data' = h.data
     /\ answers' = Counted(n, req, 1, IF h.status # 0 THEN 1 ELSE 0)
     /\ file' = h.file
     /\ dirty' = (dirty \/ (watch /\ h.wrote))
     /\ running' = (h.status # 0)
     /\ created' = IF h.status = 201
                   THEN Append(created, [n |-> n, res |-> req.res, parsed |-> parsed,
                                         sent |-> h.out[1]])
                   ELSE created
     /\ last' = Last("handled", n, req, parsed, h.status, h.out, h.total, h.newId)

\* a response sent by handleRequest itself, without a handler
Respond(n, req, status) ==
  /\ last' = Last("direct", n, req, NoRec, status, <<>>, 0, Undef)
  /\ answers' = Counted(n, req, 0, 1)
  /\ UNCHANGED <<data, file, dirty, running, created>>

\* handleRequest, up to the first wait
Arrive(m, r, id, q, b) ==
  /\ running
  /\ nreq < MaxReqs
  /\ nreq' = nreq + 1
  /\ LET n == nreq + 1
         req == Req(m, r, id, q, b)
         unread == Req(m, r, id, q, EmptyBody)       \* the body is never read
         preflight == Req(m, r, "", NoQuery, EmptyBody) \* nor is the rest of the url
     IN IF m = "OPTIONS"
        THEN Respond(n, preflight, 204) /\ UNCHANGED pending
        ELSE IF RouteOf(m, r, id) = ""
        THEN Respond(n, unread, 404) /\ UNCHANGED pending
        ELSE IF m \in BodyMethods
        THEN /\ pending' = [k \in DOMAIN pending \cup {n} |->
                              IF k = n THEN [req |-> req, phase |-> "body", parsed |-> NoRec]
                              ELSE pending[k]]
             /\ answers' = Counted(n, req, 0, 0)
             /\ UNCHANGED <<data, file, dirty, running, created, last>>
        ELSE IF delay > 0
        THEN /\ pending' = [k \in DOMAIN pending \cup {n} |->
                              IF k = n THEN [req |-> req, phase |-> "timer", parsed |-> NoRec]
                              ELSE pending[k]]
             /\ answers' = Counted(n, req, 0, 0)
             /\ UNCHANGED <<data, file, dirty, running, created, last>>
        ELSE /\ \E wok \in BOOLEAN : Invoke(n, req, NoRec, wok)
             /\ UNCHANGED pending
  /\ UNCHANGED <<routes, readonly, watch, delay, edits, startFile>>

Without(n) == [k \in DOMAIN pending \ {n} |-> pending[k]]

\* req.on('end'): the body is complete
BodyEnd(n) ==
  /\ running
  /\ n \in DOMAIN pending
  /\ pending[n].phase = "body"
  /\ LET req == pending[n].req
     IN IF BodyThrows(req.body)
        THEN Respond(n, req, 400) /\ pending' = Without(n)
        ELSE IF delay > 0
        THEN /\ pending' = [pending EXCEPT ![n].phase = "timer",
                                           ![n].parsed = ParseBody(req.body)]
             /\ UNCHANGED <<data, file, dirty, running, created, answers, last>>
        ELSE /\ \E wok \in BOOLEAN : Invoke(n, req, ParseBody(req.body), wok)
             /\ pending' = Without(n)
  /\ UNCHANGED <<routes, readonly, watch, delay, nreq, edits, startFile>>

\* the setTimeout callback of a delayed request
TimerFire(n) ==
  /\ running
  /\ n \in DOMAIN pending
  /\ pending[n].phase = "timer"
  /\ \E wok \in BOOLEAN : Invoke(n, pending[n].req, pending[n].parsed, wok)
  /\ pending' = Without(n)
  /\ UNCHANGED <<routes, readonly, watch, delay, nreq, edits, startFile>>

\* ------------------------------------------------------- file and watch
\* contents another program may give the file
OtherStore == [r \in {"posts"} |-> <<Rec(Num(7), Str("z"))>>]
EditContents ==
  {MissingFile, GarbageFile, Stringify(NullDoc), Stringify(Doc(OtherStore))}

\* another program edits the file
ExternalEdit(c) ==
  /\ edits < MaxEdits
  /\ c # file
  /\ edits' = edits + 1
  /\ file' = c
  /\ dirty' = (dirty \/ (watch /\ running))
  /\ last' = Last("edit", 0, NoReq, NoRec, 0, <<>>, 0, Undef)
  /\ UNCHANGED <<data, routes, readonly, watch, delay, pending, nreq, running, startFile,
                 created, answers>>

\* the watchFile callback: try { loadData() } catch { log }
Reload ==
  /\ running
  /\ watch
  /\ dirty
  /\ dirty' = FALSE
  /\ data' = IF LoadThrows(file) THEN data ELSE loadData(file)
  /\ last' = Last("reload", 0, NoReq, NoRec, 0, <<>>, 0, Undef)
  /\ UNCHANGED <<file, routes, readonly, watch, delay, pending, nreq, running, edits,
                 startFile, created, answers>>

\* ---------------------------------------------------------- specification
\* files the server may be started on
File1 == [r \in {"users"} |-> <<Rec(Num(1), Str("a")), Rec(Num(2), Str("b"))>>]
File2 ==
  [r \in Names |-> IF r = "users" THEN <<>>
                   ELSE <<Rec(Str("x"), Str("a")), Rec(Undef, Str("b"))>>]
StartFiles == {Stringify(Doc(File1)), Stringify(Doc(File2))}

Init ==
  /\ file \in StartFiles
  /\ startFile = file
  /\ data = loadData(file)
  /\ routes = DOMAIN data.store
  /\ readonly \in BOOLEAN
  /\ watch \in BOOLEAN
  /\ delay \in {0, 500}
  /\ pending = [k \in {} |-> 0]
  /\ nreq = 0
  /\ running = TRUE
  /\ dirty = FALSE
  /\ edits = 0
  /\ created = <<>>
  /\ answers = <<>>
  /\ last = [kind |-> "start", n |-> 0, req |-> NoReq, parsed |-> NoRec,
             status |-> 0, out |-> <<>>, total |-> 0, newId |-> Undef,
             before |-> data]

Request ==
  \/ \E m \in Methods, p \in Paths : \E b \in BodiesOf(m) :
       Arrive(m, p[1], p[2], NoQuery, b)
  \/ \E n \in 1..MaxReqs : BodyEnd(n)
  \/ \E n \in 1..MaxReqs : TimerFire(n)

\* the server alone: nothing else touches the file
Next ==
  \/ Request
  \/ Reload

\* a read-only server never writes, so that alone its watcher never fires:
\* read-only is started without watch
InitAlone == Init /\ (readonly => ~watch)

Spec == InitAlone /\ [][Next]_vars

\* the server in watch mode, with another program editing the file
InitWatch == Init /\ watch

NextWatch ==
  \/ Request
  \/ Reload
  \/ \E c \in EditContents : ExternalEdit(c)

SpecWatch == InitWatch /\ [][NextWatch]_vars

\* the undelayed server in watch mode, with another program that replaces
\* the file; the bodies are empty or unparseable, routing reads no body
InitRoutes == Init /\ watch /\ ~readonly /\ delay = 0
RouteBodies == {EmptyBody, BadBody}
RouteEdits == {Stringify(NullDoc), Stringify(Doc(OtherStore)), Stringify(Doc(File1))}

NextRoutes ==
  \/ \E m \in Methods, p \in Paths : \E b \in BodiesOf(m) \cap RouteBodies :
       Arrive(m, p[1], p[2], NoQuery, b)
  \/ \E n \in 1..MaxReqs : BodyEnd(n)
  \/ Reload
  \/ \E c \in RouteEdits : ExternalEdit(c)

SpecRoutes == InitRoutes /\ [][NextRoutes]_vars

\* the server answering list and get requests that carry a query string
ListStoreA ==
  [r \in {"users"} |-> <<Rec(Num(3), Str("b")), Rec(Num(1), Str("a")),
                         Rec(Num(2), Str("b")), Rec(Num(4), Str("a"))>>]
ListStoreB ==
  [r \in {"users"} |-> <<Rec(Num(2), Str("a")), Rec(Undef, Str("b")), Rec(Num(1), Undef)>>]
ListFiles == {Stringify(Doc(ListStoreA)), Stringify(Doc(ListStoreB))}

FilterSets ==
  {NoFilters,
   [k \in {"name"} |-> "b"],
   [k \in {"name", "id"} |-> IF k = "name" THEN "b" ELSE "2"],
   [k \in {"id"} |-> "undefined"],
   [k \in {"foo"} |-> "z"]}
PageValues == {Undef, Str("-1"), Str("0"), Str("2"), Str("5")}
LimitValues == {Undef, Str("0"), Str("1"), Str("2")}
SortValues == {Str("id"), Str("name")}
OrderValues == {Undef, Str("desc")}
\* every filter with every page and limit, and the sorts of some of these
Queries ==
  {Query(fs, pg, lim, Undef, Undef) :
     fs \in FilterSets, pg \in PageValues, lim \in LimitValues}
  \cup {Query(fs, pg, lim, srt, ord) :
          fs \in {NoFilters, [k \in {"name"} |-> "b"]}, pg \in {Undef, Str("2")},
          lim \in {Undef, Str("1"), Str("2")}, srt \in SortValues, ord \in OrderValues}
  \cup {Query(NoFilters, Undef, Undef, Str("name"), Str("asc")),
         Query(NoFilters, Str("x"), Str("x"), Undef, Str("desc"))}

InitList ==
  /\ file \in ListFiles
  /\ startFile = file
  /\ data = loadData(file)
  /\ routes = DOMAIN data.store
  /\ readonly = FALSE
  /\ watch = FALSE
  /\ delay = 0
  /\ pending = [k \in {} |-> 0]
  /\ nreq = 0
  /\ running = TRUE
  /\ dirty = FALSE
  /\ edits = 0
  /\ created = <<>>
  /\ answers = <<>>
  /\ last = [kind |-> "start", n |-> 0, req |-> NoReq, parsed |-> NoRec,
             status |-> 0, out |-> <<>>, total |-> 0, newId |-> Undef,
             before |-> data]

NextList ==
  \/ \E q \in Queries : Arrive("GET", "users", "", q, EmptyBody)
  \/ \E id \in {"1", "9"} : Arrive("GET", "users", id, NoQuery, EmptyBody)

SpecList == InitList /\ [][NextList]_vars

\* ------------------------------------------------------------ properties
Mutating == {"POST", "PUT", "PATCH", "DELETE"}
\* the route of the request `last` is about
LastRoute == RouteOf(last.req.method, last.req.res, last.req.id)
\* the last step was a handler that answered a request with this status
Answered(route, status) ==
  last.kind = "handled" /\ LastRoute = route /\ last.status = status
\* the collection the last request addressed, before and after the handler
ItemsBefore == Items(last.before, last.req.res)
ItemsAfter == Items(data, last.req.res)
\* the position of the record the last request addressed
LastIdx == FindIndex(ItemsBefore, last.req.id)

\* C1: when the server is not read-only, right after a create, replace,
\* update or delete that was answered 200 or 201 the file holds the
\* serialization of the in-memory store.
C1_FileMirrorsStore ==
  (/\ ~readonly
   /\ last.kind = "handled"
   /\ last.req.method \in Mutating
   /\ last.status \in {200, 201})
  => file = Stringify(data)

C1_Witness ==
  /\ ~readonly
  /\ last.kind = "handled"
  /\ last.req.method \in Mutating
  /\ last.status \in {200, 201}
  /\ data # last.before
  /\ file # startFile

\* C2: the id create computes is a number strictly greater than every
\* numeric id of the collection, and is 1 when the collection is empty or
\* holds no numeric id.
C2_NewIdAboveNumericIds ==
  Answered("create", 201) =>
    /\ last.newId.t = "num"
    /\ \A i \in 1..Len(ItemsBefore) :
         ItemsBefore[i]["id"].t = "num" => last.newId.n > ItemsBefore[i]["id"].n
    /\ (\A i \in 1..Len(ItemsBefore) : ItemsBefore[i]["id"].t # "num")
         => last.newId = Num(1)

\* C3: a create whose body carries an id stores and returns the record
\* with the id the server computed, not with the id of the body.
C3_ComputedIdWins ==
  (Answered("create", 201) /\ last.parsed["id"] # Undef) =>
    /\ ItemsAfter[Len(ItemsAfter)]["id"] = last.newId
    /\ last.out[1]["id"] = StringifyValue(last.newId)

\* C4: a successful replace stores and returns a record with the id of the
\* replaced record, also when the body holds another id, and with every
\* other field taken from the body only.
C4_ReplaceKeepsId ==
  Answered("replace", 200) =>
    /\ ItemsAfter[LastIdx]["id"] = ItemsBefore[LastIdx]["id"]
    /\ \A f \in Fields \ {"id"} : ItemsAfter[LastIdx][f] = last.parsed[f]
    /\ last.out = <<StringifyRec(ItemsAfter[LastIdx])>>

\* C5: a successful update stores and returns a record in which every
\* field of the body has the body's value and every other field keeps the
\* value it had.
C5_UpdateMerges ==
  Answered("update", 200) =>
    /\ \A f \in Fields :
         ItemsAfter[LastIdx][f] =
           IF last.parsed[f] # Undef THEN last.parsed[f] ELSE ItemsBefore[LastIdx][f]
    /\ last.out = <<StringifyRec(ItemsAfter[LastIdx])>>

C5_Witness ==
  /\ Answered("update", 200)
  /\ last.parsed["id"] # Undef
  /\ last.parsed["id"] # ItemsBefore[LastIdx]["id"]
  /\ last.parsed["name"] = Undef
  /\ ItemsBefore[LastIdx]["name"] # Undef

\* C6: right after a delete of id I that was answered 200, a get of I in
\* the same resource is answered 404.
C6_DeleteThenGet404 ==
  Answered("delete", 200) =>
    GetHandler(data, file, last.req.res, last.req.id).status = 404

\* C7: in read-only mode, with no outside edit of the file, the store and
\* the file stay what they were at startup whatever requests are made.
C7_ReadonlyFrame ==
  readonly => (data = loadData(startFile) /\ file = startFile)

C7_Witness ==
  /\ readonly
  /\ nreq = MaxReqs
  /\ last.kind = "handled"
  /\ last.req.method \in Mutating
  /\ last.status = 403

\* C8 as first stated: in read-only mode every POST, PUT, PATCH and DELETE
\* on a generated route is answered 403, whatever its body.
C8_ReadonlyAlways403 ==
  (/\ readonly
   /\ last.kind \in {"handled", "direct"}
   /\ last.req.method \in Mutating
   /\ LastRoute # "")
  => last.status = 403

\* C8, amended: in read-only mode a DELETE, and a POST, PUT or PATCH whose
\* body is empty or parses, on a generated route is answered 403 whether
\* or not the record exists; a POST, PUT or PATCH whose body does not
\* parse is answered 400.
C8_ReadonlyParsed403 ==
  (/\ readonly
   /\ last.kind \in {"handled", "direct"}
   /\ last.req.method \in Mutating
   /\ LastRoute # "")
  => last.status = IF BodyThrows(last.req.body) THEN 400 ELSE 403

C8_Witness ==
  /\ readonly
  /\ Answered("replace", 403)
  /\ LastIdx = 0
  /\ last.req.body.kind = "json"

\* C9: a reload leaves the store as it was when the file is missing or
\* does not hold a mapping of resource names to sequences of records, and
\* otherwise makes the store the parsed content; the server keeps running.
IsMapping(f) == f.kind = "store"
C9_ReloadKeepsOrParses ==
  last.kind = "reload" =>
    /\ running
    /\ data = IF IsMapping(file) THEN Doc(file.store) ELSE last.before

\* C10: two creates on one resource whose bodies carry no id are answered
\* with two distinct ids, and when they are the only requests both records
\* are in the collection afterwards.
C10_ConcurrentCreatesDistinct ==
  \A i, j \in 1..Len(created) :
    (/\ i < j
     /\ created[i].res = created[j].res
     /\ created[i].parsed["id"] = Undef
     /\ created[j].parsed["id"] = Undef)
    => /\ created[i].sent["id"] # created[j].sent["id"]
       /\ (nreq = 2 /\ DOMAIN pending = {}) =>
            \A k \in {i, j} : \E x \in 1..Len(Items(data, created[k].res)) :
              StringifyRec(Items(data, created[k].res)[x]) = created[k].sent

\* C11: a POST, PUT or PATCH on a generated route whose body does not
\* parse is answered 400 by handleRequest itself, with or without a delay:
\* no handler runs, and the store and the file are left as they were.
C11_BadBody400 ==
  [][(/\ last' # last
      /\ last'.kind \in {"handled", "direct"}
      /\ last'.req.method \in BodyMethods
      /\ last'.req.body.kind = "bad")
     => (/\ last'.kind = "direct"
         /\ last'.status = 400
         /\ data' = data
         /\ file' = file)]_vars

C11_Witness ==
  /\ last.kind = "direct"
  /\ last.status = 400
  /\ last.req.method = "POST"
  /\ last.req.body.kind = "bad"
  /\ delay > 0
  /\ ~readonly

\* C12: when the write of the file fails after a handler has changed the
\* store, the server keeps running (and so keeps answering requests from
\* the changed store).
C12_WriteFailureNotFatal ==
  (/\ last.kind = "handled"
   /\ last.req.method \in Mutating
   /\ last.before.kind = "store"
   /\ data # last.before
   /\ file # Stringify(data))
  => running

\* C17: if the ids are pairwise distinct within every collection of the
\* file the server started on, they are pairwise distinct within every
\* collection of the store after any requests.
DistinctIds(d) ==
  \A r \in DOMAIN d.store : \A i, j \in 1..Len(d.store[r]) :
    i # j => d.store[r][i]["id"] # d.store[r][j]["id"]
C17_IdsStayDistinct ==
  DistinctIds(loadData(startFile)) => DistinctIds(data)

\* C19: a create, replace, update or delete answered 200 or 201 leaves
\* every other collection as it was; create appends one record, replace
\* and update change only the record at the addressed position, delete
\* removes that record and keeps the others in their order.
C19_MutationFrame ==
  (/\ last.kind = "handled"
   /\ last.req.method \in Mutating
   /\ last.status \in {200, 201})
  => /\ DOMAIN data.store = DOMAIN last.before.store \cup {last.req.res}
     /\ \A q \in DOMAIN data.store \ {last.req.res} :
          data.store[q] = last.before.store[q]
     /\ last.req.method = "POST" =>
          /\ Len(ItemsAfter) = Len(ItemsBefore) + 1
          /\ \A i \in 1..Len(ItemsBefore) : ItemsAfter[i] = ItemsBefore[i]
     /\ last.req.method \in {"PUT", "PATCH"} =>
          /\ Len(ItemsAfter) = Len(ItemsBefore)
          /\ \A i \in 1..Len(ItemsBefore) :
               i # LastIdx => ItemsAfter[i] = ItemsBefore[i]
     /\ last.req.method = "DELETE" =>
          /\ Len(ItemsAfter) = Len(ItemsBefore) - 1
          /\ \A i \in 1..Len(ItemsAfter) :
               ItemsAfter[i] = ItemsBefore[IF i < LastIdx THEN i ELSE i + 1]

C19_Witness ==
  /\ last.kind = "handled"
  /\ last.req.method = "DELETE"
  /\ last.status = 200
  /\ LastIdx < Len(ItemsBefore)

\* C16: with a delay configured, every request that matches a route (with
\* a body that parses) has its handler called exactly once and gets
\* exactly one response, and no pending delay is cancelled.
C16_DelayedRequestAnswered ==
  delay > 0 =>
    /\ \A n \in DOMAIN answers :
         (answers[n].routed /\ n \notin DOMAIN pending) =>
           (answers[n].calls = 1 /\ answers[n].sent = 1)
    /\ DOMAIN pending # {} => running

\* the records of items that pass every filter of q
Matching(items, q) ==
  SelectSeq(items, LAMBDA item :
    \A k \in DOMAIN q.filters : JsString(Field(item, k)) = q.filters[k])

\* C13: the X-Total-Count of a list response is the number of records of the
\* collection whose string-converted field equals the query value for every
\* filter key, whatever _page, _limit, _sort and _order are
C13_TotalIsFilteredCount ==
  Answered("list", 200) => last.total = Len(Matching(ItemsBefore, last.req.query))

\* a filtered, paged and sorted list whose page is shorter than the total
C13_Witness ==
  /\ Answered("list", 200)
  /\ DOMAIN last.req.query.filters = {"name"}
  /\ last.req.query.page = Str("2")
  /\ last.req.query.limit = Str("1")
  /\ last.req.query.sort = Str("id")
  /\ last.total = 2
  /\ Len(last.out) = 1

\* _page or _limit is absent or spells an integer
IntegerOrAbsent(v) == v = Undef \/ ParseInt(v) # NaN

\* positions [(p-1)*l, (p-1)*l + l) of items, as far as items has them
Window(items, p, l) ==
  LET lo == IF (p - 1) * l < 0 THEN 0 ELSE (p - 1) * l
      top == (p - 1) * l + l
      hi == IF top > Len(items) THEN Len(items) ELSE IF top < 0 THEN 0 ELSE top
  IN [i \in 1..(hi - lo) |-> items[lo + i]]

\* C14: a list request with integer _page p and _limit l (p defaults to 1,
\* l to the filtered length) returns the records at positions
\* [(p-1)*l, (p-1)*l + l) of the filtered collection in store order, and
\* nothing for a p outside the pages
C14_PageIsSlice ==
  (/\ Answered("list", 200)
   /\ ~Sorting(last.req.query)
   /\ IntegerOrAbsent(last.req.query.page)
   /\ IntegerOrAbsent(last.req.query.limit))
  => LET q == last.req.query
         items == Matching(ItemsBefore, q)
         p == IF q.page = Undef THEN 1 ELSE ParseInt(q.page).n
         l == IF q.limit = Undef THEN Len(items) ELSE ParseInt(q.limit).n
         w == Window(items, p, l)
     IN last.out = [i \in 1..Len(w) |-> StringifyRec(w[i])]

\* a comes before b in the order asked for
Before(a, b, q) ==
  IF q.order = Str("desc")
  THEN JsLess(Field(b, q.sort.s), Field(a, q.sort.s))
  ELSE JsLess(Field(a, q.sort.s), Field(b, q.sort.s))

\* C15: a list request with _sort returns the records of the page window of
\* the unsorted filtered collection, ordered by the sort field (ascending
\* unless _order is desc), records with equal sort fields in store order
C15_SortOrdersWindow ==
  (Answered("list", 200) /\ Sorting(last.req.query))
  => LET q == last.req.query
         w == Paged(Filtered(ItemsBefore, q), q)
         n == Len(w)
     IN /\ Len(last.out) = n
        /\ \E p \in [1..n -> 1..n] :
             /\ \A i, j \in 1..n : i # j => p[i] # p[j]
             /\ \A i \in 1..n : last.out[i] = StringifyRec(w[p[i]])
             /\ \A i, j \in 1..n :
                  i < j => /\ ~Before(w[p[j]], w[p[i]], q)
                           /\ Field(w[p[i]], q.sort.s) = Field(w[p[j]], q.sort.s)
                                => p[i] < p[j]

\* C20: a list or get request changes neither the store nor the file
C20_ReadsChangeNothing ==
  [][(/\ last' # last
      /\ last'.kind = "handled"
      /\ last'.req.method = "GET")
     => (data' = data /\ file' = file)]_vars

\* a sorted list came back in another order than the store's, and the store
\* still has its order
C20_Witness ==
  /\ Answered("list", 200)
  /\ Sorting(last.req.query)
  /\ last.req.query.filters = NoFilters
  /\ Len(last.out) = Len(ItemsBefore)
  /\ last.out # [i \in 1..Len(ItemsBefore) |-> StringifyRec(ItemsBefore[i])]
  /\ data = last.before

\* the resource names of the file the server started on
StartupNames == DOMAIN loadData(startFile).store

\* the method and the path have the form of one of the six routes
RouteShaped(req) ==
  \/ req.method \in {"GET", "POST"} /\ req.id = ""
  \/ req.method \in {"GET", "PUT", "PATCH", "DELETE"} /\ req.id # ""

C21_ReloadOfOwnWritesKeepsStore ==
  (/\ watch
   /\ ~readonly
   /\ running
   /\ edits = 0
   /\ last.kind = "reload")
  => data = last.before

====
